---------------------------- MODULE Spec2Model ----------------------------
(***************************************************************************)
(* Capability-governance engines of the localbostrom repository:           *)
(*   - the_element            : TheElement  (agent-scoped profiles)        *)
(*   - cybernetic-governance  : CapabilityGovernance (domain-scoped)       *)
(*   - planetary_stewardship_runtime : GovernanceEngine (ethics guard),    *)
(*       PlanetaryLedger and MicroMissionsEngine (consent gate)            *)
(*                                                                         *)
(* f64 thresholds are modelled as exact ratios <<num, den>>.  Every ratio  *)
(* the code compares is count/total of small integers against a configured *)
(* threshold; both sides are correctly rounded doubles of rationals with   *)
(* small denominators, so the f64 comparison and the exact comparison      *)
(* agree.                                                                  *)
(***************************************************************************)
EXTENDS Integers, FiniteSets, Sequences, TLC

VARIABLES
    config,        \* TheElement.config        (ElementConfig)
    abilities,     \* TheElement.abilities     (catalog: CapabilityId -> CyberneticAbility)
    profiles,      \* TheElement.profiles      (AgentId -> AgentCyberProfile)
    last,          \* the call on TheElement whose Result the caller holds: its
                   \* arguments, the profiles it found and what it returned
    constitution,  \* CapabilityGovernance.constitution (GovernanceConstitution)
    domains,       \* CapabilityGovernance.domains      (domain_id -> DomainState)
    result,        \* the evaluate_proposal call whose Result the caller holds:
                   \* its arguments, the domains it found and what it returned
    rejected,      \* a proposal the proposer keeps after evaluate_proposal
                   \* rejected it
    saep,          \* GovernanceEngine.saep.config (SaepConfig)
    ruling,        \* the can_apply_proposal call whose Result the caller holds:
                   \* its arguments and what it returned
    ledger,        \* PlanetaryLedger: consent (ConsentRegistry.records) and
                   \* attestations
    missions,      \* MicroMissionsEngine: consent, templates and
                   \* active_assignments
    receipt        \* the issue_attestation or assign_mission call whose Result
                   \* the caller holds: its arguments, what the engines held
                   \* and what it returned

elementVars == <<config, abilities, profiles, last>>
governanceVars == <<constitution, domains, result, rejected>>
stewardVars == <<saep, ruling, ledger, missions, receipt>>
vars == <<config, abilities, profiles, last, constitution, domains, result,
          rejected, saep, ruling, ledger, missions, receipt>>

---------------------------------------------------------------------------
(* Bounds of the model.                                                    *)

\* largest restrict set passed to governance_turn
MaxRestrict == 2
\* largest unlock set passed to governance_turn
MaxUnlock == 1
\* largest number of capabilities a governance_turn names, restrict and
\* unlock together
MaxTurnCapabilities == 2

---------------------------------------------------------------------------
(* the_element: types and configuration.                                   *)

AgentIds == {"A", "B"}

\* b1: a baseline right; e1, e2: enhancements; x1: an identifier that is
\* in no catalog.
CapabilityIds == {"b1", "e1", "e2", "x1"}

\* f64 comparison `count / total > frac` for total >= 1 and frac = <<num, den>>
FractionExceeds(count, total, frac) == count * frac[2] > frac[1] * total

\* ElementConfig values the engine is constructed with; 33/100 is the
\* value default_element uses.
ElementConfigs ==
    [ global_baseline_capabilities : {{"b1"}},
      max_restriction_fraction_per_turn : {<<33, 100>>, <<1, 1>>} ]

\* The catalog after the upsert_ability calls of the set-up: one baseline
\* right without prerequisites, an opt-in enhancement that requires the
\* baseline, and an enhancement that requires the first one.
Catalog ==
    [ b1 |-> [requires |-> {},     require_explicit_opt_in |-> FALSE],
      e1 |-> [requires |-> {"b1"}, require_explicit_opt_in |-> TRUE],
      e2 |-> [requires |-> {"e1"}, require_explicit_opt_in |-> FALSE] ]

\* An agent without an entry in TheElement.profiles.
NoProfile == [present |-> FALSE, enabled |-> {}, blocked |-> {}]

SubsetsUpTo(S, n) == {T \in SUBSET S : Cardinality(T) <= n}

---------------------------------------------------------------------------
(* the_element: operations.  Each returns the set of outcomes             *)
(* [profiles, res] the call can have (more than one where the code's      *)
(* error message depends on HashSet iteration order).                     *)

Ok == [kind |-> "Ok", cap |-> "-"]
Err(kind, cap) == [kind |-> kind, cap |-> cap]

\* ensure_profile that creates the profile of every agent at once
ensure_profile_of_all(ps, a) ==
    [b \in AgentIds |->
        IF ps[b].present THEN ps[b]
        ELSE [present |-> TRUE,
              enabled |-> config.global_baseline_capabilities,
              blocked |-> {}]]

\* ensure_profile that seeds the profile again on every reference
ensure_profile_reseeding(ps, a) ==
    [ps EXCEPT ![a] = [present |-> TRUE,
                       enabled |-> config.global_baseline_capabilities,
                       blocked |-> {}]]

ensure_profile(ps, a) ==
    IF ps[a].present THEN ps
    ELSE [ps EXCEPT ![a] = [present |-> TRUE,
                            enabled |-> config.global_baseline_capabilities,
                            blocked |-> {}]]

\* request_enable that inserts the capability before it checks the
\* prerequisites
request_enable_insert_first(ps, a, c, explicit_opt_in) ==
    IF c \notin DOMAIN abilities
    THEN {[profiles |-> ps, res |-> Err("UnknownCapability", "-")]}
    ELSE IF abilities[c].require_explicit_opt_in /\ ~explicit_opt_in
    THEN {[profiles |-> ps, res |-> Err("OptInRequired", "-")]}
    ELSE LET ps1 == ensure_profile(ps, a)
             missing == abilities[c].requires \ ps1[a].enabled
         IN  IF c \in ps1[a].blocked
             THEN {[profiles |-> ps1, res |-> Err("SelfBlocked", "-")]}
             ELSE IF missing # {}
             THEN {[profiles |-> [ps1 EXCEPT ![a].enabled = @ \cup {c}],
                    res |-> Err("MissingPrerequisite", req)] : req \in missing}
             ELSE {[profiles |-> [ps1 EXCEPT ![a].enabled = @ \cup {c}],
                    res |-> Ok]}

\* request_enable without the check of the prerequisites
request_enable_no_prerequisites(ps, a, c, explicit_opt_in) ==
    IF c \notin DOMAIN abilities
    THEN {[profiles |-> ps, res |-> Err("UnknownCapability", "-")]}
    ELSE IF abilities[c].require_explicit_opt_in /\ ~explicit_opt_in
    THEN {[profiles |-> ps, res |-> Err("OptInRequired", "-")]}
    ELSE LET ps1 == ensure_profile(ps, a)
         IN  IF c \in ps1[a].blocked
             THEN {[profiles |-> ps1, res |-> Err("SelfBlocked", "-")]}
             ELSE {[profiles |-> [ps1 EXCEPT ![a].enabled = @ \cup {c}],
                    res |-> Ok]}

request_enable(ps, a, c, explicit_opt_in) ==
    IF c \notin DOMAIN abilities
    THEN {[profiles |-> ps, res |-> Err("UnknownCapability", "-")]}
    ELSE IF abilities[c].require_explicit_opt_in /\ ~explicit_opt_in
    THEN {[profiles |-> ps, res |-> Err("OptInRequired", "-")]}
    ELSE LET ps1 == ensure_profile(ps, a)
             missing == abilities[c].requires \ ps1[a].enabled
         IN  IF c \in ps1[a].blocked
             THEN {[profiles |-> ps1, res |-> Err("SelfBlocked", "-")]}
             ELSE IF missing # {}
             THEN {[profiles |-> ps1, res |-> Err("MissingPrerequisite", req)]
                      : req \in missing}
             ELSE {[profiles |-> [ps1 EXCEPT ![a].enabled = @ \cup {c}],
                    res |-> Ok]}

\* request_block that refuses a capability that is not in the catalog
request_block_catalog_only(ps, a, c) ==
    LET ps1 == ensure_profile(ps, a)
    IN  IF c \notin DOMAIN abilities
        THEN {[profiles |-> ps1, res |-> Err("UnknownCapability", "-")]}
        ELSE {[profiles |-> [ps1 EXCEPT ![a].enabled = @ \ {c},
                                       ![a].blocked = @ \cup {c}],
              res |-> Ok]}

\* request_block that forgets to remove the capability from enabled
request_block_keeps_enabled(ps, a, c) ==
    LET ps1 == ensure_profile(ps, a)
    IN  {[profiles |-> [ps1 EXCEPT ![a].blocked = @ \cup {c}], res |-> Ok]}

request_block(ps, a, c) ==
    LET ps1 == ensure_profile(ps, a)
    IN  {[profiles |-> [ps1 EXCEPT ![a].enabled = @ \ {c},
                                   ![a].blocked = @ \cup {c}],
          res |-> Ok]}

\* governance_turn without its baseline check
baseline_hits_none(restrict) == {}

\* lines 188-196: the baseline capabilities found in restrict
baseline_hits(restrict) == restrict \cap config.global_baseline_capabilities

\* the ratio check with >= in place of >
rate_exceeded_inclusive(enabled, restrict) ==
    LET total_before == IF Cardinality(enabled) > 1 THEN Cardinality(enabled) ELSE 1
        restrict_count == Cardinality({c \in restrict : c \in enabled})
    IN  restrict_count * config.max_restriction_fraction_per_turn[2]
            >= config.max_restriction_fraction_per_turn[1] * total_before

\* lines 198-206: the per-turn restriction ratio is over the cap
rate_exceeded(enabled, restrict) ==
    LET total_before == IF Cardinality(enabled) > 1 THEN Cardinality(enabled) ELSE 1
        restrict_count == Cardinality({c \in restrict : c \in enabled})
    IN  FractionExceeds(restrict_count, total_before,
                        config.max_restriction_fraction_per_turn)

\* lines 208-211
apply_restrictions(enabled, restrict) == enabled \ restrict

\* unlocks that override the agent's self-blocks
apply_unlocks_overriding(enabled, blocked, unlock) == enabled \cup unlock

\* lines 213-219
apply_unlocks(enabled, blocked, unlock) ==
    enabled \cup {c \in unlock : c \notin blocked}

\* governance_turn with the rate check ahead of the baseline check
governance_turn_rate_first(ps, a, restrict, unlock) ==
    LET ps1 == ensure_profile(ps, a)
        p == ps1[a]
    IN  IF rate_exceeded(p.enabled, restrict)
        THEN {[profiles |-> ps1, res |-> Err("RateExceeded", "-")]}
        ELSE IF baseline_hits(restrict) # {}
        THEN {[profiles |-> ps1, res |-> Err("BaselineViolation", c)]
                 : c \in baseline_hits(restrict)}
        ELSE {[profiles |->
                 [ps1 EXCEPT ![a].enabled =
                     apply_unlocks(apply_restrictions(p.enabled, restrict),
                                   p.blocked, unlock)],
               res |-> Ok]}

\* governance_turn that applies the unlocks before the restrictions
governance_turn_unlock_first(ps, a, restrict, unlock) ==
    LET ps1 == ensure_profile(ps, a)
        p == ps1[a]
    IN  IF baseline_hits(restrict) # {}
        THEN {[profiles |-> ps1, res |-> Err("BaselineViolation", c)]
                 : c \in baseline_hits(restrict)}
        ELSE IF rate_exceeded(p.enabled, restrict)
        THEN {[profiles |-> ps1, res |-> Err("RateExceeded", "-")]}
        ELSE {[profiles |->
                 [ps1 EXCEPT ![a].enabled =
                     apply_restrictions(apply_unlocks(p.enabled, p.blocked, unlock),
                                        restrict)],
               res |-> Ok]}

governance_turn(ps, a, restrict, unlock) ==
    LET ps1 == ensure_profile(ps, a)
        p == ps1[a]
    IN  IF baseline_hits(restrict) # {}
        THEN {[profiles |-> ps1, res |-> Err("BaselineViolation", c)]
                 : c \in baseline_hits(restrict)}
        ELSE IF rate_exceeded(p.enabled, restrict)
        THEN {[profiles |-> ps1, res |-> Err("RateExceeded", "-")]}
        ELSE {[profiles |->
                 [ps1 EXCEPT ![a].enabled =
                     apply_unlocks(apply_restrictions(p.enabled, restrict),
                                   p.blocked, unlock)],
               res |-> Ok]}

---------------------------------------------------------------------------
(* cybernetic-governance: types and configuration.                         *)

\* s1: a safety capability (globally non-restrictable); m1, m2: moves.
GovCapabilityIds == {"s1", "m1", "m2"}

DomainIds == {"d1"}

\* largest CompetitiveDomain.min_capability_count passed to upsert_domain
MaxMinCount == 1
\* largest GovernanceConstitution.global_min_capability_floor
MaxFloor == 1
\* largest block height (activation, finalized, current)
MaxHeight == 1

\* Stand-in for 2^128, the modulus of the u128 vote weights: the sum
\* yes_weight + no_weight overflows when it reaches it.
U128Modulus == 16

Heights == 0 .. MaxHeight

\* activation heights of the proposals: from 1, so that a height can be
\* below them
ActivationHeights == 1 .. MaxHeight

\* GovernanceConstitution values the engine is constructed with; 2/5 and
\* 2/3 are the values of the bci_xr_arena example.
Constitutions ==
    [ global_min_capability_floor : 0 .. MaxFloor,
      max_restriction_fraction_per_turn : {<<2, 5>>, <<1, 1>>},
      min_supermajority_floor : {<<2, 3>>},
      hard_protect_safety_capabilities : BOOLEAN,
      globally_nonrestrictable : {{"s1"}} ]

\* allowed_capabilities of the domains passed to upsert_domain
AllowedSets == {{}, {"m1"}, {"s1", "m1", "m2"}}

CompetitiveDomains ==
    [ id : DomainIds, allowed_capabilities : AllowedSets,
      min_capability_count : 0 .. MaxMinCount ]

\* restrict_capabilities and protect_capabilities of a proposal: every
\* restrict set without protection, and one proposal that protects the
\* capability it restricts
ProposalCapSets ==
    {cs \in (SUBSET GovCapabilityIds) \X {{}, {"m1"}} :
        cs[2] = {} \/ cs[1] = cs[2]}

GovernanceProposals ==
    {[domain_id |-> d, restrict_capabilities |-> cs[1],
      protect_capabilities |-> cs[2], required_supermajority |-> rs,
      activation_height |-> h] :
        d \in DomainIds, cs \in ProposalCapSets,
        rs \in {<<1, 2>>, <<3, 4>>}, h \in ActivationHeights}

\* <<yes_weight, no_weight>>: no votes, 1/2, 7/10, 4/5, and a tie whose
\* sum overflows u128 (15 + 15, to 14)
Tallies == {<<0, 0>>, <<1, 1>>, <<7, 3>>, <<4, 1>>, <<15, 15>>}

GovernanceVoteOutcomes ==
    {[yes_weight |-> t[1], no_weight |-> t[2], finalized_height |-> h] :
        t \in Tallies, h \in Heights}

\* A domain_id without an entry in CapabilityGovernance.domains.
NoDomain == [present |-> FALSE, allowed_capabilities |-> {},
             min_capability_count |-> 0, disabled_capabilities |-> {}]

Min(a, b) == IF a < b THEN a ELSE b

Max(a, b) == IF a > b THEN a ELSE b

---------------------------------------------------------------------------
(* cybernetic-governance: operations.                                      *)

upsert_domain(doms, domain) ==
    LET entry == IF doms[domain.id].present THEN doms[domain.id]
                 ELSE [present |-> TRUE,
                       allowed_capabilities |-> domain.allowed_capabilities,
                       min_capability_count |-> domain.min_capability_count,
                       disabled_capabilities |-> {}]
    IN  [doms EXCEPT ![domain.id] =
            [entry EXCEPT !.allowed_capabilities = domain.allowed_capabilities,
                          !.min_capability_count = domain.min_capability_count]]

\* the timing gate without the check of finalized_height
before_activation_current_only(proposal, vote_outcome, current_height) ==
    current_height < proposal.activation_height

\* step 1: the proposal is not yet eligible
before_activation(proposal, vote_outcome, current_height) ==
    \/ current_height < proposal.activation_height
    \/ vote_outcome.finalized_height < proposal.activation_height

\* step 2: `yes_weight + no_weight` on u128.  The sum overflows when it
\* reaches 2^128: a build with overflow checks panics, a build without
\* them wraps.
vote_total(vote_outcome, overflow_checks) ==
    LET sum == vote_outcome.yes_weight + vote_outcome.no_weight
    IN  IF sum < U128Modulus THEN [panic |-> FALSE, total |-> sum]
        ELSE IF overflow_checks THEN [panic |-> TRUE, total |-> 0]
        ELSE [panic |-> FALSE, total |-> sum % U128Modulus]

\* step 2: yes_ratio < required_supermajority || yes_ratio < min_supermajority_floor
below_supermajority(proposal, vote_outcome, total) ==
    \/ vote_outcome.yes_weight * proposal.required_supermajority[2]
           < proposal.required_supermajority[1] * total
    \/ vote_outcome.yes_weight * constitution.min_supermajority_floor[2]
           < constitution.min_supermajority_floor[1] * total

\* step 3 with restrict toggling the capabilities: one that is disabled
\* already is taken out of the set
tentative_disabled_toggling(state, proposal) ==
    LET restricted == {cap \in proposal.restrict_capabilities :
                          cap \notin constitution.globally_nonrestrictable}
    IN  (state.disabled_capabilities \ restricted)
            \cup (restricted \ state.disabled_capabilities)

\* step 3 without the constitutional non-restrictable list
tentative_disabled_unfiltered(state, proposal) ==
    state.disabled_capabilities \cup proposal.restrict_capabilities

\* step 3: the tentative restricted set
tentative_disabled(state, proposal) ==
    state.disabled_capabilities
        \cup {cap \in proposal.restrict_capabilities :
                 cap \notin constitution.globally_nonrestrictable}

\* disabled_count that counts only the capabilities this proposal adds
disabled_count_added(state, disabled) ==
    Min(Cardinality(disabled \ state.disabled_capabilities),
        Cardinality(state.allowed_capabilities))

\* step 4: disabled_count and enabled_count
disabled_count(state, disabled) ==
    Min(Cardinality(disabled), Cardinality(state.allowed_capabilities))

\* the floor checks run on the stored disabled set, before the restriction
enabled_count_before_restriction(state, disabled) ==
    Cardinality(state.allowed_capabilities)
        - Min(Cardinality(state.disabled_capabilities),
              Cardinality(state.allowed_capabilities))

enabled_count(state, disabled) ==
    Cardinality(state.allowed_capabilities) - disabled_count(state, disabled)

\* step 4: restrict_fraction > max_restriction_fraction_per_turn.  With no
\* allowed capability the f64 division is 0.0 / 0.0 = NaN, and NaN > x is
\* false.
over_restriction_fraction(state, disabled) ==
    LET total_caps == Cardinality(state.allowed_capabilities)
    IN  /\ total_caps # 0
        /\ FractionExceeds(disabled_count(state, disabled), total_caps,
                           constitution.max_restriction_fraction_per_turn)

\* step 5 left out
final_disabled_unfiltered(disabled) == disabled

\* step 5: hard protection of the safety capabilities
final_disabled(disabled) ==
    {cap \in disabled :
        ~(constitution.hard_protect_safety_capabilities
            /\ cap \in constitution.globally_nonrestrictable)}

Outcome(kind, reason, state) == [kind |-> kind, reason |-> reason, state |-> state]

\* steps 3 to 5 with the global floor checked ahead of the domain floor
apply_restrictions_to_domain_global_first(state, proposal) ==
    LET disabled == tentative_disabled(state, proposal)
    IN  IF enabled_count(state, disabled) < constitution.global_min_capability_floor
        THEN Outcome("Rejected", "global_min_capability_floor", NoDomain)
        ELSE IF enabled_count(state, disabled) < state.min_capability_count
        THEN Outcome("Rejected", "domain.min_capability_count", NoDomain)
        ELSE IF over_restriction_fraction(state, disabled)
        THEN Outcome("Rejected", "max_restriction_fraction_per_turn", NoDomain)
        ELSE Outcome("Applied", "-",
                     [state EXCEPT !.disabled_capabilities = final_disabled(disabled)])

\* steps 3 to 5 without the global floor
apply_restrictions_to_domain_no_global_floor(state, proposal) ==
    LET disabled == tentative_disabled(state, proposal)
    IN  IF enabled_count(state, disabled) < state.min_capability_count
        THEN Outcome("Rejected", "domain.min_capability_count", NoDomain)
        ELSE IF over_restriction_fraction(state, disabled)
        THEN Outcome("Rejected", "max_restriction_fraction_per_turn", NoDomain)
        ELSE Outcome("Applied", "-",
                     [state EXCEPT !.disabled_capabilities = final_disabled(disabled)])

\* steps 3 to 5, for a proposal that passed the timing and vote gates
apply_restrictions_to_domain(state, proposal) ==
    LET disabled == tentative_disabled(state, proposal)
    IN  IF enabled_count(state, disabled) < state.min_capability_count
        THEN Outcome("Rejected", "domain.min_capability_count", NoDomain)
        ELSE IF enabled_count(state, disabled) < constitution.global_min_capability_floor
        THEN Outcome("Rejected", "global_min_capability_floor", NoDomain)
        ELSE IF over_restriction_fraction(state, disabled)
        THEN Outcome("Rejected", "max_restriction_fraction_per_turn", NoDomain)
        ELSE Outcome("Applied", "-",
                     [state EXCEPT !.disabled_capabilities = final_disabled(disabled)])

\* evaluate_proposal with the timing gate ahead of the domain lookup
evaluate_proposal_timing_first(doms, proposal, vote_outcome, current_height, overflow_checks) ==
    LET state == doms[proposal.domain_id]
        t == vote_total(vote_outcome, overflow_checks)
    IN  IF before_activation(proposal, vote_outcome, current_height)
        THEN Outcome("NoChange", "-", NoDomain)
        ELSE IF ~state.present
        THEN Outcome("UnknownDomain", "Unknown domain_id", NoDomain)
        ELSE IF t.panic
        THEN Outcome("Panic", "attempt to add with overflow", NoDomain)
        ELSE IF t.total = 0
        THEN Outcome("NoChange", "-", NoDomain)
        ELSE IF below_supermajority(proposal, vote_outcome, t.total)
        THEN Outcome("NoChange", "-", NoDomain)
        ELSE apply_restrictions_to_domain(state, proposal)

\* evaluate_proposal with the constitutional checks ahead of the vote gate
evaluate_proposal_floors_first(doms, proposal, vote_outcome, current_height, overflow_checks) ==
    LET state == doms[proposal.domain_id]
        t == vote_total(vote_outcome, overflow_checks)
        checked == apply_restrictions_to_domain(state, proposal)
    IN  IF ~state.present
        THEN Outcome("UnknownDomain", "Unknown domain_id", NoDomain)
        ELSE IF before_activation(proposal, vote_outcome, current_height)
        THEN Outcome("NoChange", "-", NoDomain)
        ELSE IF checked.kind = "Rejected" THEN checked
        ELSE IF t.panic
        THEN Outcome("Panic", "attempt to add with overflow", NoDomain)
        ELSE IF t.total = 0
        THEN Outcome("NoChange", "-", NoDomain)
        ELSE IF below_supermajority(proposal, vote_outcome, t.total)
        THEN Outcome("NoChange", "-", NoDomain)
        ELSE checked

\* evaluate_proposal that remembers the proposal it evaluated last and
\* answers a repeated one with Ok(None)
evaluate_proposal_once(doms, proposal, vote_outcome, current_height, overflow_checks) ==
    LET state == doms[proposal.domain_id]
        t == vote_total(vote_outcome, overflow_checks)
    IN  IF ~state.present
        THEN Outcome("UnknownDomain", "Unknown domain_id", NoDomain)
        ELSE IF before_activation(proposal, vote_outcome, current_height)
        THEN Outcome("NoChange", "-", NoDomain)
        ELSE IF result.kind # "none" /\ result.proposal = proposal
        THEN Outcome("NoChange", "-", NoDomain)
        ELSE IF t.panic
        THEN Outcome("Panic", "attempt to add with overflow", NoDomain)
        ELSE IF t.total = 0
        THEN Outcome("NoChange", "-", NoDomain)
        ELSE IF below_supermajority(proposal, vote_outcome, t.total)
        THEN Outcome("NoChange", "-", NoDomain)
        ELSE apply_restrictions_to_domain(state, proposal)

\* What a call returns in one build: Err("Unknown domain_id"), Ok(None)
\* ("NoChange"), Err(<rejection>) ("Rejected"), Ok(Some(new_state))
\* ("Applied"), or a panic.
evaluate_proposal_build(doms, proposal, vote_outcome, current_height, overflow_checks) ==
    LET state == doms[proposal.domain_id]
        t == vote_total(vote_outcome, overflow_checks)
    IN  IF ~state.present
        THEN Outcome("UnknownDomain", "Unknown domain_id", NoDomain)
        ELSE IF before_activation(proposal, vote_outcome, current_height)
        THEN Outcome("NoChange", "-", NoDomain)
        ELSE IF t.panic
        THEN Outcome("Panic", "attempt to add with overflow", NoDomain)
        ELSE IF t.total = 0
        THEN Outcome("NoChange", "-", NoDomain)
        ELSE IF below_supermajority(proposal, vote_outcome, t.total)
        THEN Outcome("NoChange", "-", NoDomain)
        ELSE apply_restrictions_to_domain(state, proposal)

\* The outcomes a call can have, over the builds (with and without
\* overflow checks).
evaluate_proposal(doms, proposal, vote_outcome, current_height) ==
    {evaluate_proposal_build(doms, proposal, vote_outcome, current_height,
                             overflow_checks) : overflow_checks \in BOOLEAN}

---------------------------------------------------------------------------
(* planetary_stewardship_runtime: the ethics kernel and the governance     *)
(* guard.                                                                  *)

\* largest number of phrases in a proposal description
MaxPhrases == 2

\* The phrases a description is made of; a description is the set of the
\* phrases that occur in it.
Phrases == {"Weapon", "coercive", "military", "exclusive monetization", "garden"}

\* str::to_lowercase, phrase by phrase
to_lowercase(description) ==
    {IF ph = "Weapon" THEN "weapon" ELSE ph : ph \in description}

\* str::contains for the keywords the code looks for
contains(text, keyword) == keyword \in text

Descriptions == SubsetsUpTo(Phrases, MaxPhrases)

SaepConfigs ==
    [ enforce_non_harm : BOOLEAN, enforce_transparency : BOOLEAN,
      enforce_reversibility : BOOLEAN, enforce_informed_consent : BOOLEAN,
      enforce_commons_benefit : BOOLEAN, forbid_punitive_scoring : BOOLEAN ]

\* GovernanceScope: a module id (one bound by the charter, the one that is
\* not, an id that names no module) or the whole ecosystem
GovernanceScopes ==
    {[kind |-> "Module", mid |-> m] : m \in {"PLGA", "CSC", "XYZ"}}
        \cup {[kind |-> "EcosystemWide", mid |-> "-"]}

StewardProposals ==
    [ scope : GovernanceScopes, description : Descriptions,
      can_introduce_restrictions : BOOLEAN ]

\* f64 totals: a number or NaN
NaN == [nan |-> TRUE, v |-> 0]
F64s == {[nan |-> FALSE, v |-> n] : n \in {-1, 0, 1, 2}} \cup {NaN}

QuadraticOutcomes == [ total_support : F64s, total_opposition : F64s ]

\* f64 `a <= b`: false when either side is NaN
F64LessEq(a, b) == ~a.nan /\ ~b.nan /\ a.v <= b.v

\* GovernanceEngine::new: every module but CSC is bound by the charter
charter_bound_modules == {"PLGA", "MME", "VET", "OCG", "DCCN", "REBL", "PSM"}

\* SaepEngine::evaluate on a context with this description
saep_evaluate(cfg, description) ==
    LET maybe_risky == \/ contains(to_lowercase(description), "weapon")
                       \/ contains(to_lowercase(description), "coercive")
        hoarding == contains(to_lowercase(description), "exclusive monetization")
    IN  [ allowed |-> /\ ~(cfg.enforce_non_harm /\ maybe_risky)
                      /\ ~(cfg.enforce_commons_benefit /\ hoarding),
          reasons |->
              (IF cfg.enforce_non_harm /\ maybe_risky THEN {"non_harm"} ELSE {})
                \cup (IF cfg.enforce_commons_benefit /\ hoarding
                        THEN {"commons_benefit"} ELSE {}),
          require_rollback_plan |-> cfg.enforce_reversibility,
          require_public_intent_log |-> cfg.enforce_transparency,
          require_consent |-> cfg.enforce_informed_consent ]

\* the StewardModule a proposal's scope stands for
scope_module(scope) ==
    IF scope.kind = "Module"
        /\ scope.mid \in {"PLGA", "MME", "VET", "OCG", "DCCN", "REBL", "PSM", "CSC"}
    THEN scope.mid
    ELSE "CSC"

\* Result<bool, String> of can_apply_proposal
can_apply_proposal(cfg, proposal, outcome) ==
    LET module == scope_module(proposal.scope)
        decision == saep_evaluate(cfg, proposal.description)
        text == to_lowercase(proposal.description)
    IN  IF F64LessEq(outcome.total_support, outcome.total_opposition)
        THEN [kind |-> "Ok", value |-> FALSE, reason |-> "-"]
        ELSE IF ~decision.allowed
        THEN [kind |-> "Err", value |-> FALSE, reason |-> "Ethics-kernel veto"]
        ELSE IF /\ proposal.can_introduce_restrictions
                /\ module \in charter_bound_modules
                /\ (contains(text, "weapon") \/ contains(text, "military"))
        THEN [kind |-> "Err", value |-> FALSE, reason |-> "CSC"]
        ELSE [kind |-> "Ok", value |-> TRUE, reason |-> "-"]

---------------------------------------------------------------------------
(* planetary_stewardship_runtime: consent registry, ledger and missions.   *)

\* most upsert_consent calls a registry is filled with before an engine
\* takes it
MaxConsentRecords == 1
\* most attestations a ledger holds, and most assignments a missions
\* engine holds
MaxRecorded == 1

Dids == {"u1", "u2"}

MissionIds == {"m1", "m2"}

\* Option<MissionId>
MissionOptions == {"None"} \cup MissionIds

\* the records passed to upsert_consent: consent of u1, given or refused,
\* for either module, with or without the mission m1
ConsentRecords ==
    [ participant : {"u1"}, module : {"PLGA", "MME"},
      mission : {"None", "m1"}, consent_given : BOOLEAN ]

\* ConsentRegistry::upsert_consent: the record replaces the one with its key
upsert_consent(records, record) ==
    {r \in records : ~(/\ r.participant = record.participant
                       /\ r.module = record.module
                       /\ r.mission = record.mission)}
        \cup {record}

\* the registries n upsert_consent calls on ConsentRegistry::new() can build
RECURSIVE RegistriesAfter(_)
RegistriesAfter(n) ==
    IF n = 0 THEN {{}}
    ELSE LET before == RegistriesAfter(n - 1)
         IN  before \cup {upsert_consent(records, record) :
                            records \in before, record \in ConsentRecords}

Registries == RegistriesAfter(MaxConsentRecords)

\* has_valid_consent that takes a record of any mission
has_valid_consent_any_mission(records, did, module, mission) ==
    \E r \in records :
        r.participant = did /\ r.module = module /\ r.consent_given

\* ConsentRegistry::has_valid_consent
has_valid_consent(records, did, module, mission) ==
    \E r \in records :
        /\ r.participant = did /\ r.module = module /\ r.mission = mission
        /\ r.consent_given

\* descriptions of attestations and of mission templates: one the ethics
\* kernel lets pass, one it flags
LedgerDescriptions == {{"garden"}, {"Weapon", "garden"}}

\* PlanetaryLedger::issue_attestation: the Result and the attestations
\* the ledger holds afterwards (a sequence: every attestation gets a
\* fresh uuid)
issue_attestation(cfg, l, actor_did, mission_id, description) ==
    LET decision == saep_evaluate(cfg, description)
    IN  IF ~decision.allowed
        THEN [res |-> [kind |-> "Err", reason |-> "SAEP blocked"],
              attestations |-> l.attestations]
        ELSE IF /\ decision.require_consent
                /\ ~has_valid_consent(l.consent, actor_did, "PLGA", mission_id)
        THEN [res |-> [kind |-> "Err", reason |-> "No valid KSCP consent"],
              attestations |-> l.attestations]
        ELSE [res |-> [kind |-> "Ok", reason |-> "-"],
              attestations |->
                  Append(l.attestations,
                         [actor_did |-> actor_did, mission_id |-> mission_id])]

\* A MissionId without an entry in MicroMissionsEngine.templates.
NoTemplate == [present |-> FALSE, description |-> {}]

\* MicroMissionsEngine::add_template
add_template(templates, tpl) ==
    [templates EXCEPT ![tpl.id] = [present |-> TRUE, description |-> tpl.description]]

\* MicroMissionsEngine::assign_mission: the Result and the assignments the
\* engine holds afterwards
assign_mission(cfg, m, mission_id, assignee) ==
    IF ~m.templates[mission_id].present
    THEN [res |-> [kind |-> "Err", reason |-> "Unknown mission template"],
          active_assignments |-> m.active_assignments]
    ELSE LET decision == saep_evaluate(cfg, m.templates[mission_id].description)
         IN  IF ~decision.allowed
             THEN [res |-> [kind |-> "Err", reason |-> "SAEP blocked"],
                   active_assignments |-> m.active_assignments]
             ELSE IF /\ decision.require_consent
                     /\ ~has_valid_consent(m.consent, assignee, "MME", mission_id)
             THEN [res |-> [kind |-> "Err", reason |-> "No valid KSCP consent"],
                   active_assignments |-> m.active_assignments]
             ELSE [res |-> [kind |-> "Ok", reason |-> "-"],
                   active_assignments |->
                       Append(m.active_assignments,
                              [mission |-> mission_id, assignee |-> assignee])]

---------------------------------------------------------------------------
(* The state machines.  A caller makes one call at a time and takes the    *)
(* Result it returns before it makes the next one.                         *)

NoCall == [op |-> "none", agent |-> "-", cap |-> "-", opt_in |-> FALSE,
           restrict |-> {}, unlock |-> {},
           prev |-> [a \in AgentIds |-> NoProfile], res |-> Ok]

NoProposal == [domain_id |-> "-", restrict_capabilities |-> {},
               protect_capabilities |-> {}, required_supermajority |-> <<0, 1>>,
               activation_height |-> 0]

NoVoteOutcome == [yes_weight |-> 0, no_weight |-> 0, finalized_height |-> 0]

NoResult == [kind |-> "none", reason |-> "-", state |-> NoDomain,
             proposal |-> NoProposal, vote_outcome |-> NoVoteOutcome,
             current_height |-> 0,
             prev |-> [d \in DomainIds |-> NoDomain], repeated |-> FALSE]

Call(op, a, c, optin, restrict, unlock, out) ==
    /\ profiles' = out.profiles
    /\ last' = [op |-> op, agent |-> a, cap |-> c, opt_in |-> optin,
                restrict |-> restrict, unlock |-> unlock,
                prev |-> profiles, res |-> out.res]
    /\ UNCHANGED <<config, abilities, governanceVars, stewardVars>>

RequestEnable ==
    /\ last = NoCall
    /\ \E a \in AgentIds, c \in CapabilityIds, optin \in BOOLEAN :
         \E out \in request_enable(profiles, a, c, optin) :
           Call("request_enable", a, c, optin, {}, {}, out)

RequestBlock ==
    /\ last = NoCall
    /\ \E a \in AgentIds, c \in CapabilityIds :
         \E out \in request_block(profiles, a, c) :
           Call("request_block", a, c, FALSE, {}, {}, out)

GovernanceTurn ==
    /\ last = NoCall
    /\ \E a \in AgentIds,
          restrict \in SubsetsUpTo(CapabilityIds, MaxRestrict),
          unlock \in SubsetsUpTo(CapabilityIds, MaxUnlock) :
         /\ Cardinality(restrict) + Cardinality(unlock) <= MaxTurnCapabilities
         /\ \E out \in governance_turn(profiles, a, restrict, unlock) :
           Call("governance_turn", a, "-", FALSE, restrict, unlock, out)

\* The caller takes the Result of its call (the `?` of the demo).
TakeResult ==
    /\ last # NoCall
    /\ last' = NoCall
    /\ UNCHANGED <<config, abilities, profiles, governanceVars, stewardVars>>

UpsertDomain ==
    /\ result = NoResult
    /\ \E domain \in CompetitiveDomains :
         domains' = upsert_domain(domains, domain)
    /\ UNCHANGED <<constitution, result, rejected, elementVars, stewardVars>>

\* upsert_domain for a domain_id that has no state yet: the domain is
\* stored with an empty disabled set and its definition stays as given
CreateDomain ==
    /\ result = NoResult
    /\ \E domain \in CompetitiveDomains :
         /\ ~domains[domain.id].present
         /\ domains' = upsert_domain(domains, domain)
    /\ UNCHANGED <<constitution, result, rejected, elementVars, stewardVars>>

\* evaluate_proposal taking &mut self and storing the state it computed
EvaluateProposalStoring ==
    /\ result = NoResult
    /\ \E proposal \in GovernanceProposals,
          vote_outcome \in GovernanceVoteOutcomes,
          current_height \in Heights :
         \E out \in evaluate_proposal(domains, proposal, vote_outcome, current_height) :
           /\ result' = [kind |-> out.kind, reason |-> out.reason, state |-> out.state,
                         proposal |-> proposal, vote_outcome |-> vote_outcome,
                         current_height |-> current_height, prev |-> domains,
                         repeated |-> FALSE]
           /\ domains' = IF out.kind = "Applied"
                          THEN [domains EXCEPT ![proposal.domain_id] = out.state]
                          ELSE domains
    /\ UNCHANGED <<constitution, rejected, elementVars, stewardVars>>

EvaluateProposal ==
    /\ result = NoResult
    /\ \E proposal \in GovernanceProposals,
          vote_outcome \in GovernanceVoteOutcomes,
          current_height \in Heights :
         \E out \in evaluate_proposal(domains, proposal, vote_outcome, current_height) :
           result' = [kind |-> out.kind, reason |-> out.reason, state |-> out.state,
                      proposal |-> proposal, vote_outcome |-> vote_outcome,
                      current_height |-> current_height, prev |-> domains,
                      repeated |-> FALSE]
    /\ UNCHANGED <<constitution, domains, rejected, elementVars, stewardVars>>

\* The caller repeats the call whose Result it holds, with the same
\* arguments, on the same engine and in the same build: the first call
\* returned, so if it came to the sum of the weights the build is one
\* in which that sum does not panic.
EvaluateProposalAgain ==
    /\ result # NoResult
    /\ ~result.repeated
    /\ result.kind # "Panic"
    /\ \E overflow_checks \in BOOLEAN :
         /\ (/\ result.prev[result.proposal.domain_id].present
             /\ ~before_activation(result.proposal, result.vote_outcome,
                                   result.current_height))
                => ~vote_total(result.vote_outcome, overflow_checks).panic
         /\ LET out == evaluate_proposal_build(domains, result.proposal,
                                               result.vote_outcome,
                                               result.current_height,
                                               overflow_checks)
            IN  result' = [result EXCEPT !.kind = out.kind, !.reason = out.reason,
                                         !.state = out.state, !.prev = domains,
                                         !.repeated = TRUE]
    /\ UNCHANGED <<constitution, domains, rejected, elementVars, stewardVars>>

\* The caller installs the state an Applied result carries as the domain's
\* state and evaluates the same proposal, with the same vote outcome and
\* height, against it, in the same build (one in which the sum of the
\* weights did not panic).
ReapplyProposal ==
    /\ result.kind = "Applied"
    /\ ~result.repeated
    /\ \E overflow_checks \in BOOLEAN :
         /\ ~vote_total(result.vote_outcome, overflow_checks).panic
         /\ LET committed == [domains EXCEPT
                                ![result.proposal.domain_id] = result.state]
                out == evaluate_proposal_build(committed, result.proposal,
                                               result.vote_outcome,
                                               result.current_height,
                                               overflow_checks)
            IN  /\ domains' = committed
                /\ result' = [result EXCEPT !.kind = out.kind, !.reason = out.reason,
                                            !.state = out.state, !.prev = committed,
                                            !.repeated = TRUE]
    /\ UNCHANGED <<constitution, rejected, elementVars, stewardVars>>

\* The caller installs the state an Applied result carries as the domain's
\* state.
CommitApplied ==
    /\ result.kind = "Applied"
    /\ domains' = [domains EXCEPT ![result.proposal.domain_id] = result.state]
    /\ result' = NoResult
    /\ UNCHANGED <<constitution, rejected, elementVars, stewardVars>>

\* The caller drops the Result (the match arms of the bci_xr_arena example
\* only print it).
DropResult ==
    /\ result # NoResult
    /\ result.kind # "Panic"
    /\ result' = NoResult
    /\ UNCHANGED <<constitution, domains, rejected, elementVars, stewardVars>>

NoRuling == [op |-> "none",
             proposal |-> [scope |-> [kind |-> "EcosystemWide", mid |-> "-"],
                           description |-> {},
                           can_introduce_restrictions |-> FALSE],
             outcome |-> [total_support |-> NaN, total_opposition |-> NaN],
             res |-> [kind |-> "Ok", value |-> FALSE, reason |-> "-"]]

CanApplyProposal ==
    /\ ruling = NoRuling
    /\ \E proposal \in StewardProposals, outcome \in QuadraticOutcomes :
         ruling' = [op |-> "can_apply_proposal", proposal |-> proposal,
                    outcome |-> outcome,
                    res |-> can_apply_proposal(saep, proposal, outcome)]
    /\ UNCHANGED <<saep, ledger, missions, receipt, elementVars, governanceVars>>

\* The caller takes the Result of can_apply_proposal.
TakeRuling ==
    /\ ruling # NoRuling
    /\ ruling' = NoRuling
    /\ UNCHANGED <<saep, ledger, missions, receipt, elementVars, governanceVars>>

NoReceipt == [op |-> "none", actor |-> "-", mission |-> "-", description |-> {},
              ledger |-> [consent |-> {}, attestations |-> <<>>],
              missions |-> [consent |-> {},
                            templates |-> [id \in MissionIds |-> NoTemplate],
                            active_assignments |-> <<>>],
              res |-> [kind |-> "Ok", reason |-> "-"]]

IssueAttestation ==
    /\ receipt = NoReceipt
    /\ Len(ledger.attestations) < MaxRecorded
    /\ \E actor_did \in Dids, mission_id \in MissionOptions,
          description \in LedgerDescriptions :
         LET out == issue_attestation(saep, ledger, actor_did, mission_id, description)
         IN  /\ ledger' = [ledger EXCEPT !.attestations = out.attestations]
             /\ receipt' = [op |-> "issue_attestation", actor |-> actor_did,
                            mission |-> mission_id, description |-> description,
                            ledger |-> ledger, missions |-> missions,
                            res |-> out.res]
    /\ UNCHANGED <<saep, ruling, missions, elementVars, governanceVars>>

AddTemplate ==
    /\ receipt = NoReceipt
    /\ \E tpl \in [id : {"m1"}, description : LedgerDescriptions] :
         missions' = [missions EXCEPT !.templates = add_template(@, tpl)]
    /\ UNCHANGED <<saep, ruling, ledger, receipt, elementVars, governanceVars>>

AssignMission ==
    /\ receipt = NoReceipt
    /\ Len(missions.active_assignments) < MaxRecorded
    /\ \E mission_id \in MissionIds, assignee \in Dids :
         LET out == assign_mission(saep, missions, mission_id, assignee)
         IN  /\ missions' = [missions EXCEPT
                                !.active_assignments = out.active_assignments]
             /\ receipt' = [op |-> "assign_mission", actor |-> assignee,
                            mission |-> mission_id,
                            description |-> missions.templates[mission_id].description,
                            ledger |-> ledger, missions |-> missions,
                            res |-> out.res]
    /\ UNCHANGED <<saep, ruling, ledger, elementVars, governanceVars>>

\* The caller takes the Result of issue_attestation or assign_mission.
TakeReceipt ==
    /\ receipt # NoReceipt
    /\ receipt' = NoReceipt
    /\ UNCHANGED <<saep, ruling, ledger, missions, elementVars, governanceVars>>

\* PlanetaryLedger::new and MicroMissionsEngine::new, each with a registry
\* filled by the same upsert_consent calls
NewLedger ==
    /\ \E records \in Registries :
         /\ ledger = [consent |-> records, attestations |-> <<>>]
         /\ missions = [consent |-> records,
                        templates |-> [id \in MissionIds |-> NoTemplate],
                        active_assignments |-> <<>>]
    /\ receipt = NoReceipt

\* SaepConfig::default()
DefaultSaepConfig ==
    [ enforce_non_harm |-> TRUE, enforce_transparency |-> TRUE,
      enforce_reversibility |-> TRUE, enforce_informed_consent |-> TRUE,
      enforce_commons_benefit |-> TRUE, forbid_punitive_scoring |-> TRUE ]

\* GovernanceEngine::new(SaepEngine::new(SaepConfig::default()))
NewSteward ==
    /\ saep = DefaultSaepConfig
    /\ ruling = NoRuling
    /\ ledger = NoReceipt.ledger
    /\ missions = NoReceipt.missions
    /\ receipt = NoReceipt

\* The proposer keeps the proposal of a Rejected result, unmodified, to
\* submit it again later.
RememberRejected ==
    /\ result.kind = "Rejected"
    /\ rejected = NoProposal
    /\ rejected' = result.proposal
    /\ result' = NoResult
    /\ UNCHANGED <<constitution, domains, elementVars, stewardVars>>

\* TheElement::new(config) with the catalog upserted, no profile yet.
NewElement ==
    /\ abilities = Catalog
    /\ profiles = [a \in AgentIds |-> NoProfile]
    /\ last = NoCall

\* CapabilityGovernance::new(constitution): no domain yet.
NewGovernance ==
    /\ domains = [d \in DomainIds |-> NoDomain]
    /\ result = NoResult
    /\ rejected = NoProposal

\* Any stored DomainState: the input states evaluate_proposal is a function of.
DomainStates ==
    {NoDomain} \cup
    [ present : {TRUE}, allowed_capabilities : AllowedSets,
      min_capability_count : 0 .. MaxMinCount,
      disabled_capabilities : SUBSET GovCapabilityIds ]

InitElement ==
    /\ config \in ElementConfigs
    /\ NewElement
    /\ constitution = CHOOSE c \in Constitutions : TRUE
    /\ NewGovernance
    /\ NewSteward

InitGovernance ==
    /\ constitution \in Constitutions
    /\ NewGovernance
    /\ config = CHOOSE c \in ElementConfigs : TRUE
    /\ NewElement
    /\ NewSteward

InitEvaluate ==
    /\ constitution \in Constitutions
    /\ domains \in [DomainIds -> DomainStates]
    /\ result = NoResult
    /\ rejected = NoProposal
    /\ config = CHOOSE c \in ElementConfigs : TRUE
    /\ NewElement
    /\ NewSteward

InitSteward ==
    /\ saep \in SaepConfigs
    /\ ruling = NoRuling
    /\ ledger = NoReceipt.ledger
    /\ missions = NoReceipt.missions
    /\ receipt = NoReceipt
    /\ config = CHOOSE c \in ElementConfigs : TRUE
    /\ NewElement
    /\ constitution = CHOOSE c \in Constitutions : TRUE
    /\ NewGovernance

\* the SaepConfig values that differ from the default in the switches
\* evaluate reads for `allowed` and `require_consent`
ConsentSaepConfigs ==
    {cfg \in SaepConfigs : /\ cfg.enforce_transparency
                           /\ cfg.enforce_reversibility
                           /\ cfg.forbid_punitive_scoring}

InitConsent ==
    /\ saep \in ConsentSaepConfigs
    /\ ruling = NoRuling
    /\ NewLedger
    /\ config = CHOOSE c \in ElementConfigs : TRUE
    /\ NewElement
    /\ constitution = CHOOSE c \in Constitutions : TRUE
    /\ NewGovernance

NextElement == RequestEnable \/ RequestBlock \/ GovernanceTurn \/ TakeResult

NextGovernance == UpsertDomain \/ EvaluateProposal \/ CommitApplied \/ DropResult

NextRepeat ==
    UpsertDomain \/ EvaluateProposal \/ EvaluateProposalAgain \/ CommitApplied
        \/ DropResult

NextRetry ==
    UpsertDomain \/ EvaluateProposal \/ CommitApplied \/ DropResult
        \/ RememberRejected

NextReapply ==
    UpsertDomain \/ EvaluateProposal \/ ReapplyProposal \/ CommitApplied
        \/ DropResult

NextCommit == CreateDomain \/ EvaluateProposal \/ CommitApplied \/ DropResult

NextSteward == CanApplyProposal \/ TakeRuling

NextConsent == IssueAttestation \/ AddTemplate \/ AssignMission \/ TakeReceipt

\* TheElement, from new()
SpecElement == InitElement /\ [][NextElement]_vars

\* CapabilityGovernance, from new()
SpecGovernance == InitGovernance /\ [][NextGovernance]_vars

\* CapabilityGovernance, from any stored domain state
SpecEvaluate == InitEvaluate /\ [][NextGovernance]_vars

\* CapabilityGovernance, from new(), with callers that repeat a call
SpecRepeat == InitGovernance /\ [][NextRepeat]_vars

\* CapabilityGovernance, from new(), with a proposer that keeps a rejected
\* proposal
SpecRetry == InitGovernance /\ [][NextRetry]_vars

\* CapabilityGovernance, from any stored domain state, with callers that
\* commit an Applied result and evaluate the proposal again
SpecReapply == InitEvaluate /\ [][NextReapply]_vars

\* CapabilityGovernance, from new(), with domains that keep the definition
\* they were created with
SpecCommit == InitGovernance /\ [][NextCommit]_vars

\* GovernanceEngine, from new() with any SaepConfig
SpecSteward == InitSteward /\ [][NextSteward]_vars

\* PlanetaryLedger and MicroMissionsEngine, from new() with a SaepConfig
\* and a registry
SpecConsent == InitConsent /\ [][NextConsent]_vars

---------------------------------------------------------------------------
(* Properties of CapabilityGovernance.                                     *)

\* enabled_count of a domain state: |allowed| - min(|disabled|, |allowed|)
EnabledCountOf(state) ==
    Cardinality(state.allowed_capabilities)
        - Min(Cardinality(state.disabled_capabilities),
              Cardinality(state.allowed_capabilities))

\* max(domain.min_capability_count, global_min_capability_floor)
FloorOf(state) ==
    Max(state.min_capability_count, constitution.global_min_capability_floor)

AboveFloor(state) == EnabledCountOf(state) >= FloorOf(state)

SameDefinition(s, t) ==
    /\ s.present /\ t.present
    /\ s.allowed_capabilities = t.allowed_capabilities
    /\ s.min_capability_count = t.min_capability_count

\* the state a proposal asks for: the stored disabled set with the
\* restrictable part of restrict added
Requested(r) ==
    LET s == r.prev[r.proposal.domain_id]
    IN  [s EXCEPT !.disabled_capabilities =
            @ \cup (r.proposal.restrict_capabilities
                      \ constitution.globally_nonrestrictable)]

\* C1 (floor monotonicity): while a domain keeps its definition, no step
\* takes its stored state from enabled_count >= max(min_capability_count,
\* global_min_capability_floor) to below it; every Applied result is at or
\* above that maximum, and a proposal past the gates that asks for a state
\* below it is Rejected, never Applied.
C1_FloorMonotonicity ==
    [][ /\ \A d \in DomainIds :
             (SameDefinition(domains[d], domains'[d]) /\ AboveFloor(domains[d]))
                 => AboveFloor(domains'[d])
        /\ result'.kind = "Applied" => AboveFloor(result'.state)
        /\ (result'.kind \in {"Applied", "Rejected"} /\ ~AboveFloor(Requested(result')))
               => result'.kind = "Rejected"
      ]_vars

\* C1 witness: a proposal on a domain that already has a disabled
\* capability is Applied and lands exactly on a positive floor.
C1_Witness ==
    /\ result.kind = "Applied"
    /\ result.prev[result.proposal.domain_id].disabled_capabilities # {}
    /\ result.state.disabled_capabilities
           # result.prev[result.proposal.domain_id].disabled_capabilities
    /\ AboveFloor(result.prev[result.proposal.domain_id])
    /\ EnabledCountOf(result.state) = FloorOf(result.state)
    /\ FloorOf(result.state) > 0

\* C2 (baseline invariance): with hard_protect_safety_capabilities set, the
\* disabled set of every Applied result holds no globally non-restrictable
\* capability, whatever the stored state and the proposal.
C2_BaselineInvariance ==
    (constitution.hard_protect_safety_capabilities /\ result.kind = "Applied")
        => result.state.disabled_capabilities
               \cap constitution.globally_nonrestrictable = {}

\* C2 witness: an Applied result on a stored state that had a
\* non-restrictable capability disabled, for a proposal restricting one.
C2_Witness ==
    /\ constitution.hard_protect_safety_capabilities
    /\ result.kind = "Applied"
    /\ result.prev[result.proposal.domain_id].disabled_capabilities
           \cap constitution.globally_nonrestrictable # {}
    /\ result.proposal.restrict_capabilities
           \cap constitution.globally_nonrestrictable # {}

\* C6: evaluate_proposal leaves the stored domain states as it found them,
\* whatever it returns.
C6_EvaluateLeavesDomains ==
    result.kind # "none" => domains = result.prev

\* C6 witness: an Applied result whose state differs from the stored one
\* is held by the caller with the store untouched.
C6_Witness ==
    /\ result.kind = "Applied"
    /\ result.state # domains[result.proposal.domain_id]
    /\ domains = result.prev

---------------------------------------------------------------------------
(* Properties of evaluate_proposal, on the call whose Result is held.      *)

\* the stored state of the proposal's domain, as the call found it
Found(r) ==
    IF r.proposal.domain_id \in DomainIds THEN r.prev[r.proposal.domain_id]
    ELSE NoDomain

\* state.disabled \cup (proposal.restrict \ globally_nonrestrictable)
TentativeOf(r) ==
    Found(r).disabled_capabilities
        \cup (r.proposal.restrict_capabilities \ constitution.globally_nonrestrictable)

\* total = |allowed|
TotalOf(r) == Cardinality(Found(r).allowed_capabilities)

\* disabled_count = min(|tentative disabled|, total)
DisabledCountOf(r) == Min(Cardinality(TentativeOf(r)), TotalOf(r))

\* enabled_count = total - disabled_count
EnabledAfter(r) == TotalOf(r) - DisabledCountOf(r)

\* disabled_count / total > max_restriction_fraction_per_turn
OverRate(r) ==
    /\ TotalOf(r) # 0
    /\ DisabledCountOf(r) * constitution.max_restriction_fraction_per_turn[2]
           > constitution.max_restriction_fraction_per_turn[1] * TotalOf(r)

TimingFails(r) ==
    \/ r.current_height < r.proposal.activation_height
    \/ r.vote_outcome.finalized_height < r.proposal.activation_height

\* yes_weight + no_weight, as a number
VoteSum(r) == r.vote_outcome.yes_weight + r.vote_outcome.no_weight

\* the sum of the weights fits u128
SumInRange(r) == VoteSum(r) < U128Modulus

\* yes_weight / total >= max(required_supermajority, min_supermajority_floor)
RatioMeetsBars(r, total) ==
    /\ r.vote_outcome.yes_weight * r.proposal.required_supermajority[2]
           >= r.proposal.required_supermajority[1] * total
    /\ r.vote_outcome.yes_weight * constitution.min_supermajority_floor[2]
           >= constitution.min_supermajority_floor[1] * total

\* the proposal is past the timing and vote gates: the call went on to
\* the constitutional checks, or the weights (whose sum fits u128) say so
PastGates(r) ==
    \/ r.kind \in {"Applied", "Rejected"}
    \/ /\ Found(r).present /\ ~TimingFails(r)
       /\ SumInRange(r) /\ VoteSum(r) > 0 /\ RatioMeetsBars(r, VoteSum(r))

FloorsHold(r) ==
    /\ EnabledAfter(r) >= Found(r).min_capability_count
    /\ EnabledAfter(r) >= constitution.global_min_capability_floor

\* the disabled set of an Applied result: the tentative set, less the
\* globally non-restrictable capabilities under hard protection
AppliedDisabled(r) ==
    IF constitution.hard_protect_safety_capabilities
    THEN TentativeOf(r) \ constitution.globally_nonrestrictable
    ELSE TentativeOf(r)

\* C11: a proposal past the gates with no floor or rate check failing is
\* Applied; every Applied state keeps allowed and min_capability_count and
\* has disabled = S.disabled \cup (restrict \ globally_nonrestrictable),
\* less every globally non-restrictable capability under hard protection;
\* a non-restrictable capability in restrict causes no error.
C11_AppliedState ==
    /\ (PastGates(result) /\ FloorsHold(result) /\ ~OverRate(result))
           => result.kind = "Applied"
    /\ result.kind = "Applied"
           => result.state = [Found(result) EXCEPT
                                 !.disabled_capabilities = AppliedDisabled(result)]

\* C11 witness: an Applied result for a proposal that restricts a
\* non-restrictable capability and a restrictable one, on a state that had
\* another capability disabled, without hard protection.
C11_Witness ==
    /\ result.kind = "Applied"
    /\ ~constitution.hard_protect_safety_capabilities
    /\ result.proposal.restrict_capabilities
           \cap constitution.globally_nonrestrictable # {}
    /\ result.state.disabled_capabilities
           \cap constitution.globally_nonrestrictable = {}
    /\ Found(result).disabled_capabilities # {}
    /\ result.state.disabled_capabilities # Found(result).disabled_capabilities

\* C12: a proposal past the gates whose enabled_count is below the
\* domain's min_capability_count is Rejected with the domain-floor reason,
\* also when enabled_count is below the global floor as well.
C12_DomainFloor ==
    (PastGates(result) /\ EnabledAfter(result) < Found(result).min_capability_count)
        => /\ result.kind = "Rejected"
           /\ result.reason = "domain.min_capability_count"

\* C12 witness: 80% yes against a required 75%, a restrict set with the
\* non-restrictable capability and two restrictable ones, enabled_count
\* below the domain floor and below the global floor too.
C12_Witness ==
    /\ result.kind = "Rejected"
    /\ result.reason = "domain.min_capability_count"
    /\ result.vote_outcome.yes_weight = 4 /\ result.vote_outcome.no_weight = 1
    /\ result.proposal.required_supermajority = <<3, 4>>
    /\ result.proposal.restrict_capabilities = {"s1", "m1", "m2"}
    /\ EnabledAfter(result) < constitution.global_min_capability_floor

\* C13: a proposal past the gates and the domain floor whose enabled_count
\* is below global_min_capability_floor is Rejected with the global-floor
\* reason, also for a domain whose own min_capability_count is lower.
C13_GlobalFloor ==
    (/\ PastGates(result)
     /\ EnabledAfter(result) >= Found(result).min_capability_count
     /\ EnabledAfter(result) < constitution.global_min_capability_floor)
        => /\ result.kind = "Rejected"
           /\ result.reason = "global_min_capability_floor"

\* C13 witness: a global-floor rejection on a domain with allowed
\* capabilities whose own floor is below the global one.
C13_Witness ==
    /\ result.kind = "Rejected"
    /\ result.reason = "global_min_capability_floor"
    /\ Found(result).allowed_capabilities # {}
    /\ Found(result).min_capability_count < constitution.global_min_capability_floor

\* C14: a proposal past the gates and both floors is Rejected with the
\* per-turn-rate reason exactly when min(|tentative disabled|, total) / total
\* is over max_restriction_fraction_per_turn, and is Applied otherwise.
C14_RateRejection ==
    (PastGates(result) /\ FloorsHold(result))
        => /\ (result.kind = "Rejected"
                 /\ result.reason = "max_restriction_fraction_per_turn")
                  <=> OverRate(result)
           /\ result.kind \in {"Rejected", "Applied"}

\* C14 witness: a rate rejection where the capabilities the proposal adds
\* are within the fraction and the previously disabled ones take the
\* count over it.
C14_Witness ==
    /\ result.kind = "Rejected"
    /\ result.reason = "max_restriction_fraction_per_turn"
    /\ Found(result).disabled_capabilities # {}
    /\ Cardinality(TentativeOf(result) \ Found(result).disabled_capabilities)
           * constitution.max_restriction_fraction_per_turn[2]
         <= constitution.max_restriction_fraction_per_turn[1] * TotalOf(result)

\* C15 as stated: for every Applied result on a domain with allowed
\* capabilities, |disabled_after \ disabled_before| / |allowed| is at most
\* max_restriction_fraction_per_turn.
C15_AddedWithinFraction ==
    (result.kind = "Applied" /\ TotalOf(result) # 0)
        => Cardinality(result.state.disabled_capabilities
                          \ Found(result).disabled_capabilities)
               * constitution.max_restriction_fraction_per_turn[2]
             <= constitution.max_restriction_fraction_per_turn[1] * TotalOf(result)

\* C16: on a known domain, a call with current_height or finalized_height
\* below the activation height returns NoChange, for every tally and
\* restrict set.
C16_TimingGate ==
    (result.kind # "none" /\ Found(result).present /\ TimingFails(result))
        => result.kind = "NoChange"

\* C16 witness: NoChange for a proposal whose activation height the chain
\* has reached but whose vote was finalized before it, with weights whose
\* sum overflows and a restrict set.
C16_Witness ==
    /\ result.kind = "NoChange"
    /\ Found(result).present
    /\ result.current_height >= result.proposal.activation_height
    /\ result.vote_outcome.finalized_height < result.proposal.activation_height
    /\ ~SumInRange(result)
    /\ result.proposal.restrict_capabilities # {}

\* C17 as stated: a proposal past the timing gate gets past the vote gate
\* only if yes_weight + no_weight > 0 and yes_weight / (yes_weight +
\* no_weight) >= max(required_supermajority, min_supermajority_floor), and
\* the result is NoChange otherwise.
C17_VoteGate ==
    (result.kind # "none" /\ Found(result).present /\ ~TimingFails(result))
        => LET meets == VoteSum(result) > 0
                          /\ RatioMeetsBars(result, VoteSum(result))
           IN  /\ result.kind \in {"Applied", "Rejected"} => meets
               /\ ~meets => result.kind = "NoChange"

\* the total the call computes where it does not panic
ComputedTotal(r) == VoteSum(r) % U128Modulus

\* C18: Rejected is returned only to a proposal that passed the timing
\* gate and, on the total the call computed, the quorum and supermajority
\* gates; a proposal that fails one of them gets NoChange (or the call
\* panics on the sum), whatever its restrict set.
C18_GatesBeforeChecks ==
    (result.kind # "none" /\ Found(result).present)
        => LET failsVote == \/ ComputedTotal(result) = 0
                            \/ ~RatioMeetsBars(result, ComputedTotal(result))
           IN  /\ result.kind = "Rejected" => (~TimingFails(result) /\ ~failsVote)
               /\ TimingFails(result) => result.kind = "NoChange"
               /\ (~TimingFails(result) /\ failsVote)
                     => \/ result.kind = "NoChange"
                        \/ result.kind = "Panic" /\ ~SumInRange(result)

\* C18 witness: NoChange for a proposal that misses the supermajority and
\* whose restrict set is below a floor and over the rate.
C18_Witness ==
    /\ result.kind = "NoChange"
    /\ Found(result).present
    /\ ~TimingFails(result)
    /\ VoteSum(result) > 0
    /\ SumInRange(result)
    /\ ~FloorsHold(result)
    /\ OverRate(result)

C21_DomainStateInvariant ==
    \A d \in DomainIds :
        domains[d].present
            => Cardinality(domains[d].allowed_capabilities)
                   - Cardinality(domains[d].disabled_capabilities)
                 >= domains[d].min_capability_count

\* C22 as stated: an Applied result on a state with disabled \subseteq
\* allowed has disabled \subseteq allowed.
C22_DisabledWithinAllowed ==
    (result.kind = "Applied"
       /\ Found(result).disabled_capabilities \subseteq Found(result).allowed_capabilities)
        => result.state.disabled_capabilities \subseteq result.state.allowed_capabilities

\* C23 as stated: an Applied result adds no capability of the proposal's
\* protect_capabilities to the disabled set.
C23_ProtectedNotDisabled ==
    result.kind = "Applied"
        => (result.state.disabled_capabilities \ Found(result).disabled_capabilities)
               \cap result.proposal.protect_capabilities = {}

\* C24 as stated: evaluate_proposal returns a value and does not panic.
C24_NeverPanics ==
    result.kind \in {"none", "UnknownDomain", "NoChange", "Applied", "Rejected"}

\* C25 as stated: a proposal that evaluate_proposal rejected is never
\* Applied when it is evaluated again, unmodified, later.
C25_RejectionFinal ==
    ~(result.kind = "Applied" /\ result.proposal = rejected)

\* C29: a call for a domain_id without a stored state returns the
\* unknown-domain error, for every vote outcome and height, and the engine
\* holds no state for that domain afterwards.
C29_UnknownDomain ==
    (result.kind # "none" /\ ~Found(result).present)
        => /\ result.kind = "UnknownDomain"
           /\ domains = result.prev
           /\ ~domains[result.proposal.domain_id].present

\* C29 witness: the unknown-domain error for a proposal that is before its
\* activation height, with weights whose sum overflows.
C29_Witness ==
    /\ result.kind = "UnknownDomain"
    /\ TimingFails(result)
    /\ ~SumInRange(result)
    /\ ~domains[result.proposal.domain_id].present

---------------------------------------------------------------------------
(* Properties of GovernanceEngine.                                         *)

\* C20 as stated: can_apply_proposal returns an error for every proposal
\* whose ethics evaluation has allowed = false, for every total_support
\* and total_opposition.
C20_EthicsVeto ==
    (ruling.op = "can_apply_proposal"
       /\ ~saep_evaluate(saep, ruling.proposal.description).allowed)
        => ruling.res.kind = "Err"

---------------------------------------------------------------------------
(* Properties of TheElement.                                               *)

\* the profile a call works on: the stored one, or the one ensure_profile
\* creates
ProfileBefore(a) ==
    IF last.prev[a].present THEN last.prev[a]
    ELSE [present |-> TRUE, enabled |-> config.global_baseline_capabilities,
          blocked |-> {}]

\* count / max(total, 1) > max_restriction_fraction_per_turn
OverFraction(count, total) ==
    count * config.max_restriction_fraction_per_turn[2]
        > config.max_restriction_fraction_per_turn[1] * Max(total, 1)

\* the error request_enable gives for a capability the agent has blocked
BlockedEnableError(c, opt_in) ==
    IF c \notin DOMAIN abilities THEN "UnknownCapability"
    ELSE IF abilities[c].require_explicit_opt_in /\ ~opt_in THEN "OptInRequired"
    ELSE "SelfBlocked"

\* C3 (as amended): a capability an agent has blocked stays blocked and
\* not enabled through every later call; a governance_turn that unlocks it
\* and restricts nothing returns Ok without enabling it; request_enable for
\* it fails, with the self-blocked error when the capability is in the
\* catalog and its opt-in requirement is met, and with the
\* unknown-capability or opt-in error of the earlier checks otherwise.
C3_SelfBlockPermanent ==
    [][ \A a \in AgentIds : \A c \in CapabilityIds :
          /\ c \in profiles'[a].blocked => c \notin profiles'[a].enabled
          /\ c \in profiles[a].blocked =>
               /\ c \in profiles'[a].blocked
               /\ (last'.op = "governance_turn" /\ last'.agent = a
                     /\ c \in last'.unlock /\ last'.restrict = {})
                    => last'.res.kind = "Ok"
               /\ (last'.op = "request_enable" /\ last'.agent = a /\ last'.cap = c)
                    => last'.res.kind = BlockedEnableError(c, last'.opt_in)
      ]_vars

\* C3 witness: an accepted governance_turn whose unlock set holds a
\* capability the agent blocked before, which is still not enabled.
C3_Witness ==
    /\ last.op = "governance_turn"
    /\ last.res.kind = "Ok"
    /\ \E c \in last.unlock :
         /\ c \in last.prev[last.agent].blocked
         /\ c \notin profiles[last.agent].enabled
         /\ c \in profiles[last.agent].blocked

\* C3 as stated: request_enable for a capability the agent has blocked
\* fails with the self-blocked error.
C3_BlockedEnableIsSelfBlocked ==
    (last.op = "request_enable" /\ last.cap \in last.prev[last.agent].blocked)
        => last.res.kind = "SelfBlocked"

\* C4: no capability is both blocked and enabled for an agent.
C4_BlockedDisjointEnabled ==
    \A a \in AgentIds : profiles[a].blocked \cap profiles[a].enabled = {}

\* C4 witness: request_block on a capability that was enabled, for an agent
\* that keeps other capabilities enabled.
C4_Witness ==
    /\ last.op = "request_block"
    /\ last.cap \in last.prev[last.agent].enabled
    /\ last.cap \in profiles[last.agent].blocked
    /\ profiles[last.agent].enabled # {}

\* C5: every baseline capability an agent has not blocked is enabled for
\* it, and a governance_turn removes no baseline capability from any agent.
C5_BaselineKept ==
    /\ \A a \in AgentIds :
         profiles[a].present =>
             (config.global_baseline_capabilities \ profiles[a].blocked)
                 \subseteq profiles[a].enabled
    /\ last.op = "governance_turn" =>
         \A a \in AgentIds :
             (last.prev[a].enabled \cap config.global_baseline_capabilities)
                 \subseteq profiles[a].enabled

\* C5 witness: an accepted governance_turn that removed a capability and
\* left the baseline enabled.
C5_Witness ==
    /\ last.op = "governance_turn"
    /\ last.res.kind = "Ok"
    /\ last.restrict \cap last.prev[last.agent].enabled # {}
    /\ config.global_baseline_capabilities \subseteq profiles[last.agent].enabled

\* C7 as stated: a governance_turn that returns an error leaves every
\* profile as it was, and creates none.
C7_FailedTurnLeavesProfiles ==
    (last.op = "governance_turn" /\ last.res.kind # "Ok")
        => profiles = last.prev

\* C8: a governance_turn whose restrict set holds a baseline capability
\* fails with the baseline violation, naming such a capability, for every
\* max_restriction_fraction_per_turn, unlock set and profile, also when the
\* rate is exceeded as well.
C8_BaselineViolationFirst ==
    (last.op = "governance_turn"
       /\ last.restrict \cap config.global_baseline_capabilities # {})
        => /\ last.res.kind = "BaselineViolation"
           /\ last.res.cap \in last.restrict \cap config.global_baseline_capabilities

\* C8 witness: a turn that restricts a baseline capability and is over the
\* rate too, with a non-empty unlock set.
C8_Witness ==
    /\ last.op = "governance_turn"
    /\ last.res.kind = "BaselineViolation"
    /\ last.unlock # {}
    /\ OverFraction(Cardinality(last.restrict \cap ProfileBefore(last.agent).enabled),
                    Cardinality(ProfileBefore(last.agent).enabled))

\* C9: a governance_turn that restricts no baseline capability fails with
\* the rate error exactly when |restrict \cap enabled| / max(|enabled|, 1)
\* is over max_restriction_fraction_per_turn on the enabled set it found,
\* and is accepted otherwise; an accepted turn removes at most that
\* fraction of the capabilities that were enabled.
C9_RateCheck ==
    (last.op = "governance_turn"
       /\ last.restrict \cap config.global_baseline_capabilities = {})
        => LET before == last.prev[last.agent].enabled
               after == profiles[last.agent].enabled
           IN  /\ last.res.kind = "RateExceeded"
                     <=> OverFraction(Cardinality(last.restrict \cap before),
                                      Cardinality(before))
               /\ last.res.kind \in {"RateExceeded", "Ok"}
               /\ last.res.kind = "Ok"
                     => ~OverFraction(Cardinality(before \ after), Cardinality(before))

\* C9 witness: one of three enabled capabilities restricted under the cap
\* 0.33 (1/3 > 0.33), refused with the rate error.
C9_Witness ==
    /\ last.op = "governance_turn"
    /\ last.res.kind = "RateExceeded"
    /\ config.max_restriction_fraction_per_turn = <<33, 100>>
    /\ Cardinality(last.prev[last.agent].enabled) = 3
    /\ Cardinality(last.restrict \cap last.prev[last.agent].enabled) = 1

\* C10: an accepted governance_turn leaves blocked as it was and sets
\* enabled to (enabled \ restrict) \cup (unlock \ blocked), on the profile
\* the call works on.
C10_TurnEffect ==
    (last.op = "governance_turn" /\ last.res.kind = "Ok")
        => LET before == ProfileBefore(last.agent)
               after == profiles[last.agent]
           IN  /\ after.enabled = (before.enabled \ last.restrict)
                                      \cup (last.unlock \ before.blocked)
               /\ after.blocked = before.blocked

\* C10 witness: an accepted turn with an enabled capability in both
\* restrict and unlock, which ends up enabled.
C10_Witness ==
    /\ last.op = "governance_turn"
    /\ last.res.kind = "Ok"
    /\ \E c \in last.restrict \cap last.unlock :
         /\ c \in last.prev[last.agent].enabled
         /\ c \notin last.prev[last.agent].blocked
         /\ c \in profiles[last.agent].enabled

\* the error request_enable gives: that of the first condition that
\* fails, in the order catalog, opt-in, self-block, prerequisites
EnableOutcome(before, c, opt_in) ==
    IF c \notin DOMAIN abilities THEN "UnknownCapability"
    ELSE IF abilities[c].require_explicit_opt_in /\ ~opt_in THEN "OptInRequired"
    ELSE IF c \in before.blocked THEN "SelfBlocked"
    ELSE IF ~(abilities[c].requires \subseteq before.enabled) THEN "MissingPrerequisite"
    ELSE "Ok"

\* C26: request_enable succeeds exactly when the capability is in the
\* catalog, its opt-in requirement is met, the agent has not blocked it and
\* all its prerequisites are enabled for the agent; a success adds it to
\* enabled and leaves blocked; a failure returns the error of the failing
\* condition (of the first one, in the order catalog, opt-in, self-block,
\* prerequisites), the missing-prerequisite error naming a missing one.
C26_RequestEnable ==
    last.op = "request_enable"
        => LET before == ProfileBefore(last.agent)
               after == profiles[last.agent]
               c == last.cap
           IN  /\ last.res.kind = "Ok"
                     <=> /\ c \in DOMAIN abilities
                         /\ (~abilities[c].require_explicit_opt_in \/ last.opt_in)
                         /\ c \notin before.blocked
                         /\ abilities[c].requires \subseteq before.enabled
               /\ last.res.kind = EnableOutcome(before, c, last.opt_in)
               /\ last.res.kind = "Ok"
                     => /\ after.enabled = before.enabled \cup {c}
                        /\ after.blocked = before.blocked
               /\ last.res.kind = "MissingPrerequisite"
                     => last.res.cap \in abilities[c].requires \ before.enabled

\* C26 witness: a successful request for a capability whose prerequisite
\* is an opt-in capability the agent enabled before.
C26_Witness ==
    /\ last.op = "request_enable"
    /\ last.res.kind = "Ok"
    /\ last.cap = "e2"
    /\ last.cap \notin last.prev[last.agent].enabled
    /\ last.cap \in profiles[last.agent].enabled

\* C27: request_block returns Ok for every capability identifier, with
\* enabled' = enabled \ {cap} and blocked' = blocked \cup {cap}, and leaves
\* the other agents' profiles.
C27_RequestBlock ==
    last.op = "request_block"
        => LET before == ProfileBefore(last.agent)
               after == profiles[last.agent]
           IN  /\ last.res.kind = "Ok"
               /\ after.enabled = before.enabled \ {last.cap}
               /\ after.blocked = before.blocked \cup {last.cap}
               /\ \A b \in AgentIds \ {last.agent} : profiles[b] = last.prev[b]

\* C27 witness: a block of an identifier that is in no catalog and that
\* the agent had blocked already, for an agent with a blocked baseline
\* capability.
C27_Witness ==
    /\ last.op = "request_block"
    /\ last.res.kind = "Ok"
    /\ last.cap \notin DOMAIN abilities
    /\ last.cap \in last.prev[last.agent].blocked
    /\ last.prev[last.agent].blocked \cap config.global_baseline_capabilities # {}

\* a request_enable that returned at its catalog or opt-in check
ReturnedBeforeProfile ==
    /\ last.op = "request_enable"
    /\ last.res.kind \in {"UnknownCapability", "OptInRequired"}

\* C28 (as amended): every call but a request_enable that fails its
\* catalog or opt-in check leaves its agent with a profile; for an agent
\* that had none it is the seeded one (enabled = global baseline, blocked
\* empty) with the call's own effect applied to it, and the seeded one
\* itself when the call fails; an existing profile is not seeded again; a
\* request_enable that fails its catalog or opt-in check creates nothing.
C28_LazyProfile ==
    last.op # "none"
        => LET a == last.agent
               seeded == [present |-> TRUE,
                          enabled |-> config.global_baseline_capabilities,
                          blocked |-> {}]
               before == IF last.prev[a].present THEN last.prev[a] ELSE seeded
               after == profiles[a]
           IN  /\ ReturnedBeforeProfile => profiles = last.prev
               /\ ~ReturnedBeforeProfile =>
                    /\ after.present
                    /\ last.res.kind # "Ok" => after = before
                    /\ (last.res.kind = "Ok" /\ last.op = "request_enable")
                         => after = [before EXCEPT !.enabled = @ \cup {last.cap}]
                    /\ last.op = "request_block"
                         => after = [before EXCEPT !.enabled = @ \ {last.cap},
                                                   !.blocked = @ \cup {last.cap}]
                    /\ (last.res.kind = "Ok" /\ last.op = "governance_turn")
                         => after = [before EXCEPT !.enabled =
                                        (@ \ last.restrict)
                                            \cup (last.unlock \ before.blocked)]
               /\ \A b \in AgentIds \ {a} : profiles[b] = last.prev[b]

\* C28 witness: a request_enable that fails on a missing prerequisite is
\* the first reference to its agent and leaves the seeded profile, while
\* another agent has a profile that differs from the seeded one.
C28_Witness ==
    /\ last.op = "request_enable"
    /\ last.res.kind = "MissingPrerequisite"
    /\ ~last.prev[last.agent].present
    /\ profiles[last.agent] = [present |-> TRUE,
                               enabled |-> config.global_baseline_capabilities,
                               blocked |-> {}]
    /\ \E b \in AgentIds \ {last.agent} :
         /\ profiles[b].present
         /\ profiles[b].blocked # {}

\* C28 as stated: every call, successful or failed, leaves its agent with
\* a profile.
C28_EveryCallCreatesProfile ==
    last.op # "none" => profiles[last.agent].present

\* C30 as stated: a governance_turn for an agent without a profile
\* returns an error and changes nothing.
C30_UnknownAgentTurnFails ==
    (last.op = "governance_turn" /\ ~last.prev[last.agent].present)
        => /\ last.res.kind # "Ok"
           /\ profiles = last.prev


---------------------------------------------------------------------------
(* The empty domain.                                                       *)

\* C31 as stated: for a proposal past the gates on a stored domain with an
\* empty allowed set, the result is Rejected with a floor reason exactly
\* when min_capability_count or the global floor is positive, it is never
\* Rejected for the per-turn rate, and an Applied result carries the
\* disabled set the domain had (no restriction is applied).
C31_EmptyDomain ==
    (/\ PastGates(result)
     /\ Found(result).present
     /\ Found(result).allowed_capabilities = {})
        => /\ EnabledAfter(result) = 0
           /\ (/\ result.kind = "Rejected"
               /\ result.reason \in {"domain.min_capability_count",
                                     "global_min_capability_floor"})
                  <=> (\/ Found(result).min_capability_count > 0
                       \/ constitution.global_min_capability_floor > 0)
           /\ result.reason # "max_restriction_fraction_per_turn"
           /\ result.kind = "Applied"
                  => result.state.disabled_capabilities
                         = Found(result).disabled_capabilities

\* C37: a proposal that was Applied and committed, evaluated again with
\* the same vote outcome and height against the committed state, is
\* Applied again, and the state it returns is the committed one, with the
\* same disabled set.
C37_ApplyIdempotent ==
    (result.repeated /\ result.kind # "none")
        => /\ result.kind = "Applied"
           /\ result.state = result.prev[result.proposal.domain_id]
           /\ result.state = domains[result.proposal.domain_id]

\* C37 witness: the second evaluation is Applied for a proposal that
\* restricts a capability, on a committed state that sits exactly on a
\* positive floor and holds a capability the proposal does not name.
C37_Witness ==
    /\ result.repeated
    /\ result.kind = "Applied"
    /\ result.proposal.restrict_capabilities
           \ constitution.globally_nonrestrictable # {}
    /\ ~(result.state.disabled_capabilities
            \subseteq result.proposal.restrict_capabilities)
    /\ EnabledCountOf(result.state) = FloorOf(result.state)
    /\ FloorOf(result.state) > 0

---------------------------------------------------------------------------
(* Properties of the profiles of TheElement, over sequences of calls.      *)

\* C32 as stated: a capability whose descriptor requires explicit opt-in
\* enters an agent's enabled set only by that agent's request_enable of it
\* with explicit_opt_in = true; no governance_turn and no other operation
\* enables it.
C32_OptInOnlyByRequest ==
    \A a \in AgentIds, c \in DOMAIN abilities :
        (/\ abilities[c].require_explicit_opt_in
         /\ c \in profiles[a].enabled
         /\ c \notin last.prev[a].enabled)
            => /\ last.op = "request_enable"
               /\ last.agent = a
               /\ last.cap = c
               /\ last.opt_in

\* the outcomes of the call recorded in `call`, made on the profiles ps
OutcomesOf(ps, call) ==
    CASE call.op = "request_enable" ->
           request_enable(ps, call.agent, call.cap, call.opt_in)
      [] call.op = "request_block" ->
           request_block(ps, call.agent, call.cap)
      [] call.op = "governance_turn" ->
           governance_turn(ps, call.agent, call.restrict, call.unlock)

\* the profiles ps with no agent but a
Alone(ps, a) == [b \in AgentIds |-> IF b = a THEN ps[a] ELSE NoProfile]

\* what a call on agent a can do to a's profile and return
EffectsOn(ps, call) ==
    {<<o.profiles[call.agent], o.res>> : o \in OutcomesOf(ps, call)}

\* C33: every call on an agent, successful or failed, leaves the profile
\* of every other agent as it was, and what it returns and does to its own
\* agent's profile is what it would return and do if no other agent had a
\* profile; so it commutes with a call on another agent (here the same
\* call made for the other agent): in either order the two calls end in
\* the same profiles and return the same results.
C33_AgentsIndependent ==
    last.op # "none" =>
        /\ <<profiles[last.agent], last.res>> \in EffectsOn(last.prev, last)
        /\ EffectsOn(last.prev, last) = EffectsOn(Alone(last.prev, last.agent), last)
        /\ \A b \in AgentIds \ {last.agent} :
            /\ profiles[b] = last.prev[b]
            /\ LET other == [last EXCEPT !.agent = b]
                   first == OutcomesOf(last.prev, other)
                   after == OutcomesOf(profiles, other)
                   swapped == UNION {OutcomesOf(o.profiles, last) : o \in first}
               IN  /\ {o.profiles : o \in after} = {o.profiles : o \in swapped}
                   /\ {o.res : o \in after} = {o.res : o \in first}
                   /\ last.res \in {o.res : o \in swapped}

\* C33 witness: a governance_turn on one agent fails on the rate check
\* while the other agent has a profile that differs from the seeded one.
C33_Witness ==
    /\ last.op = "governance_turn"
    /\ last.res.kind = "RateExceeded"
    /\ \E b \in AgentIds \ {last.agent} :
         /\ profiles[b].present
         /\ profiles[b].blocked # {}
         /\ profiles[b].enabled # config.global_baseline_capabilities

\* C36 as stated: every catalogued capability in an agent's enabled set
\* has all of its prerequisites in that agent's enabled set, after any
\* sequence of request_enable, request_block and governance_turn calls.
C36_PrerequisiteClosure ==
    \A a \in AgentIds :
        \A c \in profiles[a].enabled \cap DOMAIN abilities :
            abilities[c].requires \subseteq profiles[a].enabled

---------------------------------------------------------------------------
(* Properties of PlanetaryLedger and MicroMissionsEngine.                  *)

\* the module a call asks consent for
ModuleOf(r) == IF r.op = "issue_attestation" THEN "PLGA" ELSE "MME"

\* the registry of the engine a call was made on
RegistryOf(r) ==
    IF r.op = "issue_attestation" THEN r.ledger.consent ELSE r.missions.consent

\* the registry holds a record with consent_given = true for exactly the
\* call's (actor, module, mission)
ConsentOnRecord(r) ==
    [participant |-> r.actor, module |-> ModuleOf(r), mission |-> r.mission,
     consent_given |-> TRUE] \in RegistryOf(r)

\* C34: when the engine's ethics configuration requires consent and the
\* registry holds no record with consent_given = true for exactly (actor,
\* module, mission), issue_attestation and assign_mission return an error
\* and the ledger and the missions engine hold what they held before the
\* call, as they do after an ethics veto.
C34_ConsentGate ==
    (/\ receipt.op # "none"
     /\ \/ saep.enforce_informed_consent /\ ~ConsentOnRecord(receipt)
        \/ ~saep_evaluate(saep, receipt.description).allowed)
        => /\ receipt.res.kind = "Err"
           /\ ledger = receipt.ledger
           /\ missions = receipt.missions

\* C34 witness: assign_mission of a template the ethics kernel lets pass
\* is refused for want of consent while the registry holds the assignee's
\* consent for the same mission under the other module.
C34_Witness ==
    /\ receipt.op = "assign_mission"
    /\ receipt.res.reason = "No valid KSCP consent"
    /\ saep_evaluate(saep, receipt.description).allowed
    /\ [participant |-> receipt.actor, module |-> "PLGA",
        mission |-> receipt.mission, consent_given |-> TRUE]
           \in receipt.missions.consent
    /\ missions = receipt.missions

---------------------------------------------------------------------------
(* Properties of CapabilityGovernance over several turns.                  *)

\* min(|disabled|, |allowed|) of a stored state
CountedDisabled(state) ==
    Min(Cardinality(state.disabled_capabilities),
        Cardinality(state.allowed_capabilities))

\* min(|disabled|, |allowed|) / |allowed| <= max_restriction_fraction_per_turn
WithinCap(state) ==
    CountedDisabled(state) * constitution.max_restriction_fraction_per_turn[2]
        <= constitution.max_restriction_fraction_per_turn[1]
             * Cardinality(state.allowed_capabilities)

\* min(|disabled|, |allowed|) / |allowed| = max_restriction_fraction_per_turn
AtCap(state) ==
    CountedDisabled(state) * constitution.max_restriction_fraction_per_turn[2]
        = constitution.max_restriction_fraction_per_turn[1]
            * Cardinality(state.allowed_capabilities)

\* C35 as stated: a domain with a non-empty allowed set that keeps its
\* definition, started with an empty disabled set and changed only by
\* committing Applied results, always has min(|disabled|, |allowed|) /
\* |allowed| <= max_restriction_fraction_per_turn, and once that fraction
\* has reached the cap every proposal past the gates that would add a
\* capability to disabled is Rejected.
C35_CumulativeCap ==
    /\ \A d \in DomainIds :
         (domains[d].present /\ domains[d].allowed_capabilities # {})
             => WithinCap(domains[d])
    /\ (/\ PastGates(result)
        /\ Found(result).present
        /\ Found(result).allowed_capabilities # {}
        /\ AtCap(Found(result))
        /\ ~(TentativeOf(result) \subseteq Found(result).disabled_capabilities))
           => result.kind = "Rejected"

=============================================================================
